---- MODULE Spec2Model ----
(***************************************************************************)
(* The CSV activity import of ActivityImportForm: field resolution          *)
(* (getMappedValue), activity-type matching (getMappedActivityType), the    *)
(* row transformation and validation gate of handleImport, and the          *)
(* save-then-check mutation of useActivityImportMutations.                  *)
(*                                                                         *)
(* JavaScript strings that the code trims, upper-cases, prefix-matches or   *)
(* parses are sequences of one-character strings.  Header names, account    *)
(* ids and field names are only compared for equality and are TLA+ strings. *)
(* Messages are sequences of fragments, so that a template literal is a     *)
(* concatenation.                                                           *)
(***************************************************************************)
EXTENDS Integers, Sequences, FiniteSets, TLC

\* how many times the Import button is clicked in one behaviour
MaxAttempts == 2
\* how many data rows the parsed CSV holds at most
MaxRows == 2

VARIABLES headers, csvData, mapping, accounts, selectedFile,
          validationErrors, activitiesToImport, lastOutcome,
          attempt, status, inflight, log

inputs == <<headers, csvData, mapping, accounts, selectedFile>>
vars == <<headers, csvData, mapping, accounts, selectedFile,
          validationErrors, activitiesToImport, lastOutcome,
          attempt, status, inflight, log>>

----------------------------------------------------------------------------
\* JavaScript values

\* the value `undefined` where a string is expected (row[i] past the end)
UNDEFINED == <<"<undefined>">>

\* numbers: finite integers, NaN, +/-Infinity, and `undefined`
Num(n) == [k |-> "num", v |-> n]
NaN == [k |-> "nan", v |-> 0]
Inf(sign) == [k |-> "inf", v |-> sign]
Undefined == [k |-> "undef", v |-> 0]

\* ToBoolean of a number-or-undefined (0, NaN and undefined are falsy)
Truthy(x) == ~(x.k \in {"nan", "undef"} \/ (x.k = "num" /\ x.v = 0))
\* x || d on numbers
OrElse(x, d) == IF Truthy(x) THEN x ELSE d
\* ToBoolean of a string-or-undefined ("" and undefined are falsy)
StrTruthy(s) == s # UNDEFINED /\ s # <<>>

Sign(n) == IF n < 0 THEN -1 ELSE 1

\* a * b on IEEE doubles restricted to integers, NaN and the infinities
Mul(a, b) ==
    IF a.k = "nan" \/ b.k = "nan" THEN NaN
    ELSE IF a.k = "inf" /\ b.k = "inf" THEN Inf(a.v * b.v)
    ELSE IF a.k = "inf" THEN (IF b.v = 0 THEN NaN ELSE Inf(a.v * Sign(b.v)))
    ELSE IF b.k = "inf" THEN (IF a.v = 0 THEN NaN ELSE Inf(b.v * Sign(a.v)))
    ELSE Num(a.v * b.v)

----------------------------------------------------------------------------
\* String.prototype.trim / toUpperCase / startsWith and parseFloat

LowerCase == <<"a","b","c","d","e","f","g","h","i","j","k","l","m",
               "n","o","p","q","r","s","t","u","v","w","x","y","z">>
UpperCase == <<"A","B","C","D","E","F","G","H","I","J","K","L","M",
               "N","O","P","Q","R","S","T","U","V","W","X","Y","Z">>
Digits == <<"0","1","2","3","4","5","6","7","8","9">>

LowerCaseLetters == {LowerCase[i] : i \in DOMAIN LowerCase}
UpperOf == [c \in LowerCaseLetters |->
              UpperCase[CHOOSE i \in DOMAIN LowerCase : LowerCase[i] = c]]
DecimalDigits == {Digits[i] : i \in DOMAIN Digits}
DigitValue == [c \in DecimalDigits |->
                 (CHOOSE i \in DOMAIN Digits : Digits[i] = c) - 1]

IsWhiteSpace(c) == c \in {" ", "\t"}
IsDigit(c) == c \in DecimalDigits

toUpperChar(c) == IF c \in LowerCaseLetters THEN UpperOf[c] ELSE c

toUpperCase(s) == [i \in 1..Len(s) |-> toUpperChar(s[i])]

\* how many white-space characters s starts (ends) with
LeadingWhiteSpace(s) ==
    Cardinality({n \in 1..Len(s) : \A i \in 1..n : IsWhiteSpace(s[i])})
TrailingWhiteSpace(s) ==
    Cardinality({n \in 1..Len(s) :
                   \A i \in (Len(s) - n + 1)..Len(s) : IsWhiteSpace(s[i])})

trimStart(s) == SubSeq(s, LeadingWhiteSpace(s) + 1, Len(s))
trimEnd(s) == SubSeq(s, 1, Len(s) - TrailingWhiteSpace(s))
trim(s) == trimEnd(trimStart(s))

startsWith(s, p) == Len(p) <= Len(s) /\ SubSeq(s, 1, Len(p)) = p

InfinityLiteral == <<"I","n","f","i","n","i","t","y">>

\* the number a sequence of decimal digits denotes
DecimalValue(ds) ==
    LET value[n \in 0..Len(ds)] ==
            IF n = 0 THEN 0 ELSE 10 * value[n - 1] + DigitValue[ds[n]]
    IN value[Len(ds)]

\* how many decimal digits s starts with
LeadingDigits(s) ==
    Cardinality({n \in 1..Len(s) : \A i \in 1..n : IsDigit(s[i])})

\* an unsigned StrDecimalLiteral at the start of body, or NaN
parseUnsigned(sign, body) ==
    IF startsWith(body, InfinityLiteral) THEN Inf(sign)
    ELSE IF LeadingDigits(body) = 0 THEN NaN
    ELSE Num(sign * DecimalValue(SubSeq(body, 1, LeadingDigits(body))))

parseSigned(t) ==
    IF t # <<>> /\ t[1] = "-" THEN parseUnsigned(-1, Tail(t))
    ELSE IF t # <<>> /\ t[1] = "+" THEN parseUnsigned(1, Tail(t))
    ELSE parseUnsigned(1, t)

\* parseFloat: leading white space is skipped, then the longest prefix that
\* is a StrDecimalLiteral is converted; anything else gives NaN.  The cells
\* of the model hold no "." and no exponent, so the literal is an optional
\* sign followed by "Infinity" or by decimal digits.
parseFloat(v) == IF v = UNDEFINED THEN NaN ELSE parseSigned(trimStart(v))

\* Array.prototype.indexOf, zero-based, -1 when absent
indexOf(arr, x) ==
    IF \E i \in 1..Len(arr) : arr[i] = x
    THEN (CHOOSE i \in 1..Len(arr) :
            arr[i] = x /\ \A j \in 1..(i-1) : arr[j] # x) - 1
    ELSE -1

----------------------------------------------------------------------------
\* The closed enumerations

ImportFormat == {"Date", "Symbol", "ActivityType", "Quantity", "UnitPrice",
                 "Currency", "Fee", "Amount"}

BUY == <<"B","U","Y">>
SELL == <<"S","E","L","L">>
DIVIDEND == <<"D","I","V","I","D","E","N","D">>
INTEREST == <<"I","N","T","E","R","E","S","T">>
DEPOSIT == <<"D","E","P","O","S","I","T">>
WITHDRAWAL == <<"W","I","T","H","D","R","A","W","A","L">>
FEE == <<"F","E","E">>

\* the cash-style activity types (a fixed set membership)
CashActivityTypes == {DEPOSIT, WITHDRAWAL, DIVIDEND, INTEREST, FEE}
isCashActivity(activityType) == activityType \in CashActivityTypes

----------------------------------------------------------------------------
\* getMappedValue (FieldResolver)

\* row[columnIndex], which is undefined past the end of the row
cellAt(row, columnIndex) ==
    IF columnIndex = -1 THEN <<>>
    ELSE IF columnIndex + 1 \in DOMAIN row THEN row[columnIndex + 1]
    ELSE UNDEFINED

\* an unmapped field has the mapping "" (fieldMappings[field] || '')
getMappedValue(row, field) ==
    cellAt(row, indexOf(headers, mapping.fieldMappings[field]))

----------------------------------------------------------------------------
\* getMappedActivityType (TypeMatcher)

\* the match as an exact comparison instead of a prefix test
mappedTypeMatchesExactly(normalizedCsvType, mappedType) ==
    normalizedCsvType = toUpperCase(trim(mappedType))

mappedTypeMatches(normalizedCsvType, mappedType) ==
    startsWith(normalizedCsvType, toUpperCase(trim(mappedType)))

\* csvTypes?.some(...) of one entry of Object.entries(activityMappings)
entryMatches(entry, normalizedCsvType) ==
    /\ entry.hasTypes
    /\ \E i \in 1..Len(entry.csvTypes) :
          mappedTypeMatches(normalizedCsvType, entry.csvTypes[i])

\* the for loop over Object.entries(mapping.activityMappings)
firstMatch(entries, csvType, normalizedCsvType) ==
    IF \E i \in 1..Len(entries) : entryMatches(entries[i], normalizedCsvType)
    THEN entries[CHOOSE i \in 1..Len(entries) :
            /\ entryMatches(entries[i], normalizedCsvType)
            /\ \A j \in 1..(i-1) : ~entryMatches(entries[j], normalizedCsvType)
         ].appType
    ELSE csvType

\* [threw |-> TRUE] stands for the TypeError of calling trim on undefined
matchActivityType(csvType) ==
    IF csvType = UNDEFINED THEN [threw |-> TRUE, value |-> <<>>]
    ELSE [threw |-> FALSE,
          value |-> firstMatch(mapping.activityMappings, csvType,
                               toUpperCase(trim(csvType)))]

getMappedActivityType(row) ==
    matchActivityType(getMappedValue(row, "ActivityType"))

----------------------------------------------------------------------------
\* The row transformation of handleImport (RowTransformer)

\* accounts?.find((a) => a.id === mapping.accountId)?.currency
accountCurrency ==
    IF accounts.loaded /\ \E i \in 1..Len(accounts.list) :
                             accounts.list[i].id = mapping.accountId
    THEN accounts.list[CHOOSE i \in 1..Len(accounts.list) :
            /\ accounts.list[i].id = mapping.accountId
            /\ \A j \in 1..(i-1) : accounts.list[j].id # mapping.accountId].currency
    ELSE UNDEFINED

\* getMappedValue(row, Currency) || the account's currency
currencyOf(csvCurrency) ==
    IF StrTruthy(csvCurrency) THEN csvCurrency ELSE accountCurrency

\* mapping.symbolMappings[rawSymbol] || rawSymbol
mappedSymbol(rawSymbol) ==
    IF \E p \in mapping.symbolMappings : p.from = rawSymbol /\ p.to # <<>>
    THEN (CHOOSE p \in mapping.symbolMappings : p.from = rawSymbol).to
    ELSE rawSymbol

\* amount = parseFloat(rawAmount) || undefined, when rawAmount is truthy
parseAmount(rawAmount) ==
    IF StrTruthy(rawAmount) THEN OrElse(parseFloat(rawAmount), Undefined)
    ELSE Undefined

csvAmount(row) == parseAmount(getMappedValue(row, "Amount"))

\* the amount of a cash activity: calculated when !amount
calculatedAmount(row, amount) ==
    IF ~Truthy(amount)
    THEN Mul(OrElse(parseFloat(getMappedValue(row, "Quantity")), Num(1)),
             OrElse(parseFloat(getMappedValue(row, "UnitPrice")), Num(0)))
    ELSE amount

cashAmount(row) == calculatedAmount(row, csvAmount(row))

\* the object literal returned for a row
activityImport(row, symbol, activityType, quantity, unitPrice, amount) ==
    [date |-> getMappedValue(row, "Date"),
     assetId |-> symbol,
     symbol |-> symbol,
     activityType |-> activityType,
     quantity |-> quantity,
     unitPrice |-> unitPrice,
     currency |-> currencyOf(getMappedValue(row, "Currency")),
     fee |-> OrElse(parseFloat(getMappedValue(row, "Fee")), Num(0)),
     amount |-> amount,
     accountId |-> mapping.accountId,
     isValid |-> FALSE,
     isDraft |-> TRUE,
     comment |-> <<>>]

\* a cash activity: quantity = 1 and unitPrice = amount || 0
cashActivity(row, symbol, activityType, amount) ==
    activityImport(row, symbol, activityType, Num(1), OrElse(amount, Num(0)),
                   amount)

\* the branch on isCashActivity(activityType)
typedActivity(row, symbol, activityType) ==
    IF isCashActivity(activityType)
    THEN cashActivity(row, symbol, activityType, cashAmount(row))
    ELSE activityImport(row, symbol, activityType,
                        parseFloat(getMappedValue(row, "Quantity")),
                        parseFloat(getMappedValue(row, "UnitPrice")),
                        csvAmount(row))

\* [threw |-> TRUE] is the TypeError of getMappedActivityType or of
\* getMappedValue(row, Symbol).trim()
mappedActivity(row, mapped, csvSymbol) ==
    IF mapped.threw \/ csvSymbol = UNDEFINED
    THEN [threw |-> TRUE, activity |-> <<>>]
    ELSE [threw |-> FALSE,
          activity |-> typedActivity(row, mappedSymbol(trim(csvSymbol)),
                                     mapped.value)]

\* the callback of csvData.slice(1).map
transformRow(row) ==
    mappedActivity(row, getMappedActivityType(row),
                   getMappedValue(row, "Symbol"))

\* csvData.slice(1): the header row is excluded
dataRows == SubSeq(csvData, 2, Len(csvData))

\* the first throwing row aborts the whole map
collected(results) ==
    IF \E i \in 1..Len(results) : results[i].threw
    THEN [threw |-> TRUE, activities |-> <<>>]
    ELSE [threw |-> FALSE,
          activities |-> [i \in 1..Len(results) |-> results[i].activity]]

\* csvData.slice(1).map(...)
transformRows ==
    collected([i \in 1..Len(dataRows) |-> transformRow(dataRows[i])])

----------------------------------------------------------------------------
\* validateActivities (BatchValidator)

isParseableDate(s) ==
    /\ s # UNDEFINED
    /\ s # <<>>
    /\ \A i \in 1..Len(s) : IsDigit(s[i]) \/ s[i] = "-"

Only(cond, message) == IF cond THEN <<message>> ELSE <<>>

activityErrors(a) ==
    Only(~isParseableDate(a.date), "date missing")
    \o Only(a.symbol = <<>>, "symbol missing")
    \o Only(a.quantity.k # "num", "quantity is not a number")
    \o Only(a.unitPrice.k # "num", "unit price is not a number")
    \o Only(~StrTruthy(a.currency), "currency missing")
    \o Only(isCashActivity(a.activityType) /\ a.amount.k = "undef",
            "amount missing")

\* the per-row error lists, in row order
errorLists(activities) ==
    [i \in 1..Len(activities) |-> activityErrors(activities[i])]

\* rows without errors are absent from the report
sparse(lists) == [i \in {j \in 1..Len(lists) : lists[j] # <<>>} |-> lists[i]]

validateActivities(activities) == sparse(errorLists(activities))

\* a gate that never sees an error
hasValidationErrorsNever(report) == FALSE

\* Object.keys(validationErrors).length > 0
hasValidationErrors(report) == Cardinality(DOMAIN report) > 0

----------------------------------------------------------------------------
\* The inputs of a session: what the CSV parser, the mapping editor and the
\* account query have produced before the Import button is used

\* the second header list has an unnamed first column
HeaderChoices ==
    { <<"Date", "Symbol", "Type", "Qty", "Price", "Amt">>,
      <<"", "Symbol", "Type", "Qty", "Price", "Amt">> }

IsoDate == <<"2","0","2","4","-","0","1","-","0","5">>
AAPL == <<"A","A","P","L">>
MSFT == <<"M","S","F","T">>

\* a trade with a vendor suffix on its type and no amount
RowBuy == <<IsoDate, AAPL, <<"B","U","Y"," ","-"," ","M","K","T">>,
            <<"1","0">>, <<"1","5","0">>, <<>>>>
\* a dividend, lower case with blanks around it, whose Amount cell is 0
RowDivZero == <<IsoDate, MSFT, <<" ","d","i","v"," ">>,
                <<"2">>, <<"3">>, <<"0">>>>
\* a dividend with an amount and unparsable quantity and unit price
RowDivAmount == <<IsoDate, AAPL, DIVIDEND, <<"x">>, <<>>, <<"5","0","0">>>>
\* interest with a quantity that parses to Infinity and a unit price of 0
RowInterest == <<IsoDate, AAPL, <<"I","n","t","e","r","e","s","t">>,
                 InfinityLiteral, <<"0">>, <<"n","/","a">>>>
\* a row shorter than the header list
RowShort == <<IsoDate, AAPL>>

RowChoices == {RowBuy, RowDivZero, RowDivAmount, RowInterest, RowShort}

\* up to MaxRows data rows, no row twice
DataRowChoices ==
    UNION { {rows \in [1..n -> RowChoices] :
               \A i, j \in 1..n : i # j => rows[i] # rows[j]} : n \in 0..MaxRows }

\* "" is an unmapped field; under the second header list "Date" is the
\* header of an earlier upload
FieldMappingChoices ==
    { [Date |-> "Date", Symbol |-> "Symbol", ActivityType |-> t,
       Quantity |-> q, UnitPrice |-> p, Currency |-> "", Fee |-> "",
       Amount |-> a] :
         t \in {"Type", ""}, q \in {"Qty", ""}, p \in {"Price", ""},
         a \in {"Amt", ""} }

Entry(appType, csvTypes) ==
    [appType |-> appType, csvTypes |-> csvTypes, hasTypes |-> TRUE]
\* an activity type whose list of csv types is undefined
EntryWithoutTypes(appType) ==
    [appType |-> appType, csvTypes |-> <<>>, hasTypes |-> FALSE]

\* Object.entries(mapping.activityMappings), in insertion order
ActivityMappingChoices ==
    { << Entry(BUY, <<BUY>>),
         Entry(DIVIDEND, << <<"d","i","v">>, DIVIDEND >>),
         Entry(INTEREST, << <<"I","N","T">> >>) >>,
      << EntryWithoutTypes(SELL),
         Entry(DEPOSIT, << <<"D">> >>),
         Entry(DIVIDEND, << <<"D","I","V">> >>),
         Entry(BUY, << <<" ","b","u","y"," ">> >>) >>,
      << >> }

SymbolMappingChoice == {[from |-> MSFT, to |-> <<"M","S","F","T",".","X">>]}

Account1 == [id |-> "acc1", currency |-> <<"U","S","D">>]

\* the account id, the selected file and the account list of a session
SessionChoices ==
    { [accountId |-> "acc1", selectedFile |-> TRUE,
       accounts |-> [loaded |-> TRUE, list |-> <<Account1>>]],
      [accountId |-> "acc1", selectedFile |-> FALSE,
       accounts |-> [loaded |-> TRUE, list |-> <<Account1>>]],
      [accountId |-> "", selectedFile |-> TRUE,
       accounts |-> [loaded |-> TRUE, list |-> <<Account1>>]] }

\* what the collaborators may answer
ErrorMessages == { <<"network down">> }
CheckResults == { <<"checked as sent">>, <<"checked and enriched">> }

----------------------------------------------------------------------------
\* The observable calls, in the order they are made

Ev(ev, run, arg) == [ev |-> ev, run |-> run, arg |-> arg]

\* the onError given to useActivityImportMutations by the form
formOnError(run, error) ==
    << Ev("onError", run, <<"Import failed: ">> \o error) >>

\* the success callback called before the cached mapping is invalidated
mutationOnSuccessCallbackFirst(run, result) ==
    << Ev("onSuccess", run, result), Ev("invalidateQueries", run, <<>>) >>

\* saveAndCheckImportMutation.onSuccess
mutationOnSuccess(run, result) ==
    << Ev("invalidateQueries", run, <<>>), Ev("onSuccess", run, result) >>

\* saveAndCheckImportMutation.onError
mutationOnError(run, message) ==
    LET errorMessage == <<"Import failed: ">> \o message
    IN formOnError(run, errorMessage) \o << Ev("toast", run, message) >>

\* the catch block of handleImport; `${error}` of an Error is "Error: " + message
handleImportCatch(run, errorString) ==
    << Ev("onError", run, <<"Import failed: ">> \o errorString) >>

ErrorToString(message) == <<"Error: ">> \o message
TypeErrorString ==
    <<"TypeError: ", "Cannot read properties of undefined (reading 'trim')">>

\* saveAndCheckImportMutation.isPending
isPending == status = "pending"

\* the Import button without its disabled attribute
importButtonNeverDisabled ==
    /\ mapping.accountId # ""
    /\ selectedFile

\* the Import button is rendered and not disabled
importButtonEnabled ==
    /\ mapping.accountId # ""
    /\ selectedFile
    /\ ~isPending

----------------------------------------------------------------------------
Init ==
    /\ headers \in HeaderChoices
    /\ \E rows \in DataRowChoices : csvData = <<headers>> \o rows
    /\ \E s \in SessionChoices :
          /\ selectedFile = s.selectedFile
          /\ accounts = s.accounts
          /\ \E f \in FieldMappingChoices, am \in ActivityMappingChoices :
                mapping = [accountId |-> s.accountId,
                           fieldMappings |-> f,
                           activityMappings |-> am,
                           symbolMappings |-> SymbolMappingChoice]
    /\ validationErrors = [i \in {} |-> <<>>]
    /\ activitiesToImport = <<>>
    /\ lastOutcome = "none"
    /\ attempt = 0
    /\ status = "idle"
    /\ inflight = {}
    /\ log = <<>>

\* mutateAsync: the mutation becomes pending and its mutationFn issues
\* saveAccountImportMapping
mutateAsync(run, activities) ==
    /\ status' = "pending"
    /\ inflight' = inflight \cup
          {[run |-> run, step |-> "save", activities |-> activities]}
    /\ log' = Append(log, Ev("saveAccountImportMapping", run, <<>>))

\* handleImport after the rows are transformed: validate, then save and check
validateAndSubmit(run, activities, report) ==
    /\ activitiesToImport' = activities
    /\ IF hasValidationErrors(report)
       THEN /\ lastOutcome' = "blocked"
            /\ validationErrors' = report
            /\ UNCHANGED <<status, inflight, log>>
       ELSE /\ lastOutcome' = "submitted"
            /\ mutateAsync(run, activities)
            /\ UNCHANGED validationErrors

\* the try block of handleImport up to its first suspension, and its catch
\* block for a TypeError thrown while the rows are transformed
tryImport(run, transformed) ==
    IF transformed.threw
    THEN /\ lastOutcome' = "threw"
         /\ log' = log \o handleImportCatch(run, TypeErrorString)
         /\ UNCHANGED <<validationErrors, activitiesToImport, status, inflight>>
    ELSE validateAndSubmit(run, transformed.activities,
                           validateActivities(transformed.activities))

\* a click on the Import button
handleImport ==
    /\ importButtonEnabled
    /\ attempt < MaxAttempts
    /\ attempt' = attempt + 1
    /\ tryImport(attempt + 1, transformRows)
    /\ UNCHANGED inputs

\* the state of the mutation the observer shows: only its latest mutation
settled(run, to) == IF run = attempt THEN to ELSE status

\* saveAccountImportMapping resolves: mutationFn goes on to the check
saveResolved(req) ==
    /\ req \in inflight /\ req.step = "save"
    /\ inflight' = (inflight \ {req}) \cup {[req EXCEPT !.step = "check"]}
    /\ log' = log \o << Ev("saveResolved", req.run, <<>>),
                        Ev("checkActivitiesImport", req.run, <<>>) >>
    /\ UNCHANGED <<inputs, validationErrors, activitiesToImport, lastOutcome,
                   attempt, status>>

\* a rejected await in mutationFn: the mutation fails, its onError runs,
\* then the promise of mutateAsync rejects into the catch of handleImport
mutationFailed(req, ev, message) ==
    /\ inflight' = inflight \ {req}
    /\ status' = settled(req.run, "error")
    /\ log' = log \o << Ev(ev, req.run, message) >>
                  \o mutationOnError(req.run, message)
                  \o handleImportCatch(req.run, ErrorToString(message))
    /\ UNCHANGED <<inputs, validationErrors, activitiesToImport, lastOutcome,
                   attempt>>

\* a mutationFn that swallows the rejected save and goes on to the check
saveRejectedThenCheck(req, message) ==
    /\ req \in inflight /\ req.step = "save"
    /\ inflight' = (inflight \ {req}) \cup {[req EXCEPT !.step = "check"]}
    /\ log' = log \o << Ev("saveRejected", req.run, message),
                        Ev("checkActivitiesImport", req.run, <<>>) >>
    /\ UNCHANGED <<inputs, validationErrors, activitiesToImport, lastOutcome,
                   attempt, status>>

\* saveAccountImportMapping rejects
saveRejected(req, message) ==
    /\ req \in inflight /\ req.step = "save"
    /\ mutationFailed(req, "saveRejected", message)

\* checkActivitiesImport resolves with the server's record list
checkResolved(req, result) ==
    /\ req \in inflight /\ req.step = "check"
    /\ inflight' = inflight \ {req}
    /\ status' = settled(req.run, "success")
    /\ log' = log \o << Ev("checkResolved", req.run, result) >>
                  \o mutationOnSuccess(req.run, result)
    /\ UNCHANGED <<inputs, validationErrors, activitiesToImport, lastOutcome,
                   attempt>>

\* checkActivitiesImport rejects
checkRejected(req, message) ==
    /\ req \in inflight /\ req.step = "check"
    /\ mutationFailed(req, "checkRejected", message)

Next ==
    \/ handleImport
    \/ \E req \in inflight : saveResolved(req)
    \/ \E req \in inflight, m \in ErrorMessages : saveRejected(req, m)
    \/ \E req \in inflight, r \in CheckResults : checkResolved(req, r)
    \/ \E req \in inflight, m \in ErrorMessages : checkRejected(req, m)

Spec == Init /\ [][Next]_vars

----------------------------------------------------------------------------
\* Properties

Requests == {"saveAccountImportMapping", "checkActivitiesImport"}
Failures == {"saveRejected", "checkRejected"}
Settlements == Failures \cup {"checkResolved"}
Callbacks == {"onSuccess", "onError"}

\* the positions of the log that hold one of the events evs of a run
At(evs, run) == {i \in DOMAIN log : log[i].ev \in evs /\ log[i].run = run}

\* the rows of handleImport's last attempt were turned into records
Transformed == lastOutcome \in {"blocked", "submitted"}

\* C1: a run whose mapping save failed never issues the import check.
C1_NoCheckAfterFailedSave ==
    \A i \in DOMAIN log :
        log[i].ev = "saveRejected" =>
            At({"checkActivitiesImport"}, log[i].run) = {}

\* a save has failed
C1_Witness ==
    \E i \in DOMAIN log : log[i].ev = "saveRejected" /\ status = "error"

\* C2: the success callback is called only after the save and then the check
\* of its run succeeded, with the record list the check returned, after the
\* cached mapping was invalidated, and never in a run with a failed step.
C2_SuccessCallbackOrder ==
    \A j \in DOMAIN log :
        log[j].ev = "onSuccess" =>
            /\ \E i2 \in 1..(j-1) :
                  /\ log[i2] = Ev("checkResolved", log[j].run, log[j].arg)
                  /\ \E i1 \in 1..(i2-1) :
                        log[i1] = Ev("saveResolved", log[j].run, <<>>)
                  /\ \E i3 \in (i2+1)..(j-1) :
                        log[i3] = Ev("invalidateQueries", log[j].run, <<>>)
            /\ At(Failures, log[j].run) = {}

\* the success callback has been called
C2_Witness ==
    \E j \in DOMAIN log : log[j].ev = "onSuccess" /\ status = "success"

\* what the validation gate must do for the records and their report
GateHolds(report) ==
    /\ Cardinality(DOMAIN report) > 0 =>
          /\ validationErrors = report
          /\ \A i \in DOMAIN log : log[i].ev \notin Requests
          /\ inflight = {}
    /\ (\E i \in DOMAIN log : log[i].ev \in Requests) =>
          Cardinality(DOMAIN report) = 0

\* C3: when validation of the transformed records reports errors, neither
\* the save nor the check is issued and the report becomes the current
\* validation errors; save and check are issued only for an empty report.
C3_ValidationBlocksImport ==
    Transformed => GateHolds(validateActivities(activitiesToImport))

\* an attempt was blocked by a non-empty report
C3_Witness ==
    /\ lastOutcome = "blocked"
    /\ Cardinality(DOMAIN validationErrors) > 0
    /\ log = <<>>

\* C4: the message handed to the caller's error callback is the message of
\* the failed save or check, unchanged, and no request is issued again.
C4_ErrorMessageVerbatim ==
    \A i \in DOMAIN log :
        log[i].ev \in Failures =>
            /\ \A j \in At({"onError"}, log[i].run) : log[j].arg = log[i].arg
            /\ \A j \in At(Requests, log[i].run) : j < i

C6_EmptyWhenUnresolved ==
    attempt > 0 =>
        \A i \in 1..Len(dataRows), field \in ImportFormat :
            /\ getMappedValue(dataRows[i], field) # UNDEFINED
            /\ (\/ mapping.fieldMappings[field] = ""
                \/ \A c \in 1..Len(headers) :
                      headers[c] # mapping.fieldMappings[field])
               => getMappedValue(dataRows[i], field) = <<>>

\* C7: a cash-style record has quantity 1, an amount, and unitPrice = amount.
C7_CashRecordShape ==
    Transformed =>
        \A i \in 1..Len(activitiesToImport) :
            isCashActivity(activitiesToImport[i].activityType) =>
                /\ activitiesToImport[i].quantity = Num(1)
                /\ activitiesToImport[i].amount # Undefined
                /\ activitiesToImport[i].unitPrice = activitiesToImport[i].amount

\* C8: for a cash-style row whose Amount field parses as a number, 0
\* included, the record's amount is that number.
C8_ParsedAmountKept ==
    Transformed =>
        \A i \in 1..Len(activitiesToImport) :
            (/\ isCashActivity(activitiesToImport[i].activityType)
             /\ parseFloat(getMappedValue(dataRows[i], "Amount")) # NaN)
            => activitiesToImport[i].amount =
                  parseFloat(getMappedValue(dataRows[i], "Amount"))

\* p is a prefix of s
IsPrefixOf(p, s) == \E k \in 0..Len(s) : SubSeq(s, 1, k) = p

\* entry e has a pattern whose normal form is a prefix of normalized
HasPattern(e, normalized) ==
    /\ e.hasTypes
    /\ \E t \in 1..Len(e.csvTypes) :
          IsPrefixOf(toUpperCase(trim(e.csvTypes[t])), normalized)

\* no entry has a pattern for the raw type
NoPattern(raw) ==
    \A n \in 1..Len(mapping.activityMappings) :
        ~HasPattern(mapping.activityMappings[n], toUpperCase(trim(raw)))

\* type is the activity type of the first entry with a matching pattern,
\* or else the given fallback
FirstMatchOr(type, raw, fallback) ==
    \/ \E n \in 1..Len(mapping.activityMappings) :
          /\ HasPattern(mapping.activityMappings[n], toUpperCase(trim(raw)))
          /\ \A m \in 1..(n-1) :
                ~HasPattern(mapping.activityMappings[m], toUpperCase(trim(raw)))
          /\ type = mapping.activityMappings[n].appType
    \/ /\ NoPattern(raw)
       /\ type = fallback

RawType(i) == getMappedValue(dataRows[i], "ActivityType")

C10_OneCallbackPerAttempt ==
    \A run \in 1..attempt :
        /\ Cardinality(At(Callbacks, run)) <= 1
        /\ At(Failures, run) # {} =>
              Cardinality(At({"onError"}, run)) = 1 /\ At({"onSuccess"}, run) = {}
        /\ At({"checkResolved"}, run) # {} =>
              Cardinality(At({"onSuccess"}, run)) = 1 /\ At({"onError"}, run) = {}

====
